---- MODULE Spec2Model ----
(***************************************************************************)
(* A model of lambdacheck (src/lambdacheck/__init__.py): the directive     *)
(* parser, the text normaliser, the cell result extractor, the worksheet   *)
(* builder, the expected-set builder and the matcher/grader.               *)
(*                                                                         *)
(* Python strings are sequences of one-character strings; the escape       *)
(* character is the atom ESC.  Python floats that the code only adds,      *)
(* multiplies and compares are exact rationals [n, d].                     *)
(***************************************************************************)
EXTENDS Integers, Sequences, FiniteSets, TLC

VARIABLES
    pc,             \* the position of the running operation
    data,           \* normalize_string: the argument
    options,        \* normalize_string: the NormalizeOptions
    once,           \* normalize_string(data, options)
    twice,          \* normalize_string(once, options)
    cell,           \* get_directives / get_cell_result: the argument cell
    cell_result,    \* get_cell_result's return value
    directives,     \* get_directives' return value
    master,         \* the master document's cells
    kernel,         \* the master document's kernel name, "" when it has none
    worksheet,      \* make_worksheet: worksheet.cells
    test,           \* make_expected_list: the test flag
    expected_list,  \* make_expected_list's result / make_report's argument
    nb,             \* make_report: the submitted document's cells
    title_prefix,   \* make_report: the prefix filter
    cells,          \* make_report: the lookup of submitted cells
    k,              \* the loop position in master.cells / expected_list
    results,        \* make_report: results
    grade,          \* make_report: grade
    total,          \* make_report: total
    report          \* make_report's return value, or the exception raised

normVars == <<data, options, once, twice>>
cellVars == <<cell, cell_result, directives>>
sheetVars == <<kernel, worksheet>>
gradeVars == <<test, expected_list, nb, title_prefix, cells, results, grade, total,
               report>>
vars == <<pc, k, master, normVars, cellVars, sheetVars, gradeVars>>

-----------------------------------------------------------------------------
(* Bounds of the model.                                                    *)

\* The longest normalised string, counted in pieces of Pieces.
MaxPieces == 3

-----------------------------------------------------------------------------
(* Characters.                                                             *)

ESC == "ESC"

\* The code point of a character of the model's alphabet.
Ord(c) ==
    CASE c = "\t" -> 9
      [] c = "\n" -> 10
      [] c = ESC -> 27
      [] c = " " -> 32
      [] c = "*" -> 42
      [] c = "-" -> 45
      [] c = "." -> 46
      [] c = "0" -> 48
      [] c = "1" -> 49
      [] c = "2" -> 50
      [] c = "3" -> 51
      [] c = "5" -> 53
      [] c = ":" -> 58
      [] c = "<" -> 60
      [] c = ">" -> 62
      [] c = "A" -> 65
      [] c = "E" -> 69
      [] c = "J" -> 74
      [] c = "L" -> 76
      [] c = "M" -> 77
      [] c = "N" -> 78
      [] c = "T" -> 84
      [] c = "U" -> 85
      [] c = "V" -> 86
      [] c = "[" -> 91
      [] c = "a" -> 97
      [] c = "b" -> 98
      [] c = "c" -> 99
      [] c = "e" -> 101
      [] c = "h" -> 104
      [] c = "i" -> 105
      [] c = "j" -> 106
      [] c = "k" -> 107
      [] c = "l" -> 108
      [] c = "m" -> 109
      [] c = "n" -> 110
      [] c = "o" -> 111
      [] c = "p" -> 112
      [] c = "r" -> 114
      [] c = "s" -> 115
      [] c = "t" -> 116
      [] c = "u" -> 117
      [] c = "v" -> 118
      [] c = "x" -> 120
      [] c = "y" -> 121
      [] c = "{" -> 123
      [] c = "}" -> 125

Alphabet ==
    {"\t", "\n", ESC, " ", "*", "-", ".", "0", "1", "2", "3", "5", ":", "<", ">",
     "A", "E", "J", "L", "M", "N", "T", "U", "V", "[", "a", "b", "c", "e", "h", "i",
     "j", "k", "l", "m", "n", "o", "p", "r", "s", "t", "u", "v", "x", "y", "{", "}"}

InRange(c, lo, hi) == Ord(c) >= lo /\ Ord(c) <= hi

\* str.isspace / the regex class \s
Space == {c \in Alphabet : InRange(c, 9, 13) \/ InRange(c, 28, 32)}
\* the regex class \d
Digit == {c \in Alphabet : InRange(c, 48, 57)}
\* the regex class [a-f0-9]
Hex == {c \in Alphabet : InRange(c, 48, 57) \/ InRange(c, 97, 102)}
\* the regex class \w
WordCh ==
    {c \in Alphabet : InRange(c, 48, 57) \/ InRange(c, 65, 90) \/ Ord(c) = 95
                      \/ InRange(c, 97, 122)}
\* the regex class [@-Z\\-_]
AnsiFe == {c \in Alphabet : InRange(c, 64, 90) \/ InRange(c, 92, 95)}
\* the regex class [0-?]
AnsiParam == {c \in Alphabet : InRange(c, 48, 63)}
\* the regex class [ -/]
AnsiInter == {c \in Alphabet : InRange(c, 32, 47)}
\* the regex class [@-~]
AnsiFinal == {c \in Alphabet : InRange(c, 64, 126)}

\* str.lower, one character
LowerCh(c) ==
    IF InRange(c, 65, 90) THEN CHOOSE d \in Alphabet : Ord(d) = Ord(c) + 32 ELSE c

-----------------------------------------------------------------------------
(* Strings.                                                                *)

RECURSIVE RunLen(_, _, _)
\* The number of consecutive characters of class C in s from position i on.
RunLen(s, i, C) ==
    IF i <= Len(s) /\ s[i] \in C THEN 1 + RunLen(s, i + 1, C) ELSE 0

RECURSIVE RunLenNot(_, _, _)
\* The number of consecutive characters not of class C in s from position i on.
RunLenNot(s, i, C) ==
    IF i <= Len(s) /\ s[i] \notin C THEN 1 + RunLenNot(s, i + 1, C) ELSE 0

RECURSIVE TrailLen(_, _, _)
\* The number of consecutive characters of class C in s from position i back.
TrailLen(s, i, C) ==
    IF i >= 1 /\ s[i] \in C THEN 1 + TrailLen(s, i - 1, C) ELSE 0

\* lit occurs in s at position i
HasAt(s, i, lit) ==
    i + Len(lit) - 1 <= Len(s) /\ SubSeq(s, i, i + Len(lit) - 1) = lit

\* str.rstrip()
RStrip(s) == SubSeq(s, 1, Len(s) - TrailLen(s, Len(s), Space))

\* str.strip()
Strip(s) ==
    LET r == RStrip(s) IN SubSeq(r, 1 + RunLen(r, 1, Space), Len(r))

\* str.lower()
Lower(s) == [i \in 1..Len(s) |-> LowerCh(s[i])]

\* lit in s
Contains(s, lit) == \E i \in 1..(Len(s) - Len(lit) + 1) : HasAt(s, i, lit)

\* s.startswith(prefix)
StartsWith(s, prefix) == HasAt(s, 1, prefix)

Spaces(n) == [i \in 1..n |-> " "]

AtLit == <<"a", "t", " ", "0", "x">>
AtMask == <<"a", "t", " ", "0", "x", "*", "*", "*">>
InputLit ==
    <<"<", "i", "p", "y", "t", "h", "o", "n", "-", "i", "n", "p", "u", "t", "-">>
InputMask == InputLit \o <<"*", "*", "*", ">">>

\* The length of the match of a pattern of normalize_string at position i of
\* s, 0 when it does not match there (none of them matches the empty string).
MatchLen(pattern, s, i) ==
    CASE pattern = "whitespace" ->              \* \s+
           RunLen(s, i, Space)
      [] pattern = "address" ->                 \* at 0x[a-f0-9]+
           IF HasAt(s, i, AtLit)
           THEN LET h == RunLen(s, i + Len(AtLit), Hex)
                IN IF h > 0 THEN Len(AtLit) + h ELSE 0
           ELSE 0
      [] pattern = "input" ->                   \* <ipython-input-[^>]*>
           IF HasAt(s, i, InputLit)
           THEN LET n == RunLenNot(s, i + Len(InputLit), {">"})
                IN IF i + Len(InputLit) + n <= Len(s)
                   THEN Len(InputLit) + n + 1 ELSE 0
           ELSE 0
      [] pattern = "ansi" ->    \* \x1B(?:[@-Z\\-_]|\[[0-?]*[ -/]*[@-~])
           IF s[i] = ESC /\ i + 1 <= Len(s)
           THEN IF s[i + 1] \in AnsiFe THEN 2
                ELSE IF s[i + 1] = "["
                THEN LET p == RunLen(s, i + 2, AnsiParam)
                         q == RunLen(s, i + 2 + p, AnsiInter)
                         j == i + 2 + p + q
                     IN IF j <= Len(s) /\ s[j] \in AnsiFinal
                        THEN j - i + 1 ELSE 0
                ELSE 0
           ELSE 0
      [] pattern = "decimal" ->                 \* \b(\d)+\.(\d+)\b
           IF s[i] \in Digit /\ (i = 1 \/ s[i - 1] \notin WordCh)
           THEN LET a == RunLen(s, i, Digit)
                    b == RunLen(s, i + a + 1, Digit)
                    e == i + a + b
                IN IF /\ i + a <= Len(s) /\ s[i + a] = "."
                      /\ b > 0
                      /\ (e = Len(s) \/ s[e + 1] \notin WordCh)
                   THEN a + 1 + b ELSE 0
           ELSE 0

\* replacer (lines 138-142): group 1 of (\d)+ is its last repetition, the last
\* digit of the integer part; group 2 is the fractional part.
replacer(s, i, n, digits) ==
    LET a == RunLen(s, i, Digit)
        g1 == <<s[i + a - 1]>>
        g2 == SubSeq(s, i + a + 1, i + n - 1)
        b == IF Len(g2) > digits
             THEN SubSeq(g2, 1, digits) \o Spaces(Len(g2) - digits)
             ELSE g2
    IN g1 \o <<".">> \o b

\* What a match of the pattern is replaced by.
Replacement(pattern, s, i, n, digits) ==
    CASE pattern = "whitespace" -> <<" ">>
      [] pattern = "address" -> AtMask
      [] pattern = "input" -> InputMask
      [] pattern = "ansi" -> <<>>
      [] pattern = "decimal" -> replacer(s, i, n, digits)

RECURSIVE re_sub(_, _, _, _)
\* re.sub: the leftmost non-overlapping matches of the pattern in s from
\* position i on, each replaced.
re_sub(pattern, s, i, digits) ==
    IF i > Len(s) THEN <<>>
    ELSE LET n == MatchLen(pattern, s, i)
         IN IF n > 0
            THEN Replacement(pattern, s, i, n, digits)
                     \o re_sub(pattern, s, i + n, digits)
            ELSE <<s[i]>> \o re_sub(pattern, s, i + 1, digits)

\* re.sub(r'^\s*$', '', data): without re.MULTILINE the pattern matches only a
\* string that is all whitespace.
IgnoreBlanks(s) == IF RunLen(s, 1, Space) = Len(s) THEN <<>> ELSE s

\* NormalizeOptions(): round is None (0 here: line 136 tests its truth value,
\* under which None and 0 are the same).
DefaultOptions ==
    [lower |-> FALSE, whitespace |-> FALSE, strip |-> FALSE,
     maskAddresses |-> TRUE, maskAnsi |-> TRUE, ignoreblanks |-> TRUE,
     round |-> 0]

\* The steps of normalize_string after line 122, each under its option
StripStep(d, o) == IF o.strip THEN Strip(d) ELSE d
LowerStep(d, o) == IF o.lower THEN Lower(d) ELSE d
WhitespaceStep(d, o) == IF o.whitespace THEN re_sub("whitespace", d, 1, 0) ELSE d
IgnoreBlanksStep(d, o) == IF o.ignoreblanks THEN IgnoreBlanks(d) ELSE d
MaskAddressesStep(d, o) ==
    IF o.maskAddresses THEN re_sub("input", re_sub("address", d, 1, 0), 1, 0)
    ELSE d
MaskAnsiStep(d, o) == IF o.maskAnsi THEN re_sub("ansi", d, 1, 0) ELSE d
RoundStep(d, o) == IF o.round > 0 THEN re_sub("decimal", d, 1, o.round) ELSE d

normalize_string(d, o) ==
    RoundStep(
        MaskAnsiStep(
            MaskAddressesStep(
                IgnoreBlanksStep(
                    WhitespaceStep(LowerStep(StripStep(RStrip(d), o), o), o), o),
                o),
            o),
        o)

\* normalize, on a str (the only kind of value the code passes to it)
normalize(d, o) == normalize_string(d, o)

\* get_normalize_options: always the defaults
get_normalize_options(ds) == DefaultOptions

-----------------------------------------------------------------------------
(* Rationals: the floats of the grader (ratio, grade, total).              *)

RECURSIVE GCD(_, _)
GCD(a, b) == IF b = 0 THEN a ELSE GCD(b, a % b)

\* n / d in lowest terms (n >= 0, d > 0)
Rat(n, d) == LET g == GCD(n, d) IN [n |-> n \div g, d |-> d \div g]

RatAdd(x, y) == Rat(x.n * y.d + y.n * x.d, x.d * y.d)
RatMul(x, y) == Rat(x.n * y.n, x.d * y.d)
RatLess(x, y) == x.n * y.d < y.n * x.d
Zero == Rat(0, 1)
One == Rat(1, 1)

-----------------------------------------------------------------------------
(* Cells.  A cell is [id, cell_type, source, has_outputs, outputs]: source *)
(* is the sequence of the lines of cell.source, has_outputs says whether   *)
(* the cell has an outputs attribute.  A line is blank (whitespace only),  *)
(* code (anything that does not start with a comment lead) or a comment    *)
(* [lead, gap, at, key, colon, value]: the lead characters, whether        *)
(* whitespace follows them, whether "@" follows that, and the rest split   *)
(* at its first ":".                                                       *)

BlankLine ==
    [form |-> "blank", lead |-> "", gap |-> FALSE, at |-> FALSE, key |-> "",
     colon |-> FALSE, value |-> <<>>]
CodeLine ==
    [form |-> "code", lead |-> "", gap |-> FALSE, at |-> FALSE, key |-> "",
     colon |-> FALSE, value |-> <<>>]
\* "<lead> @<key>"
Flag(lead, key) ==
    [form |-> "comment", lead |-> lead, gap |-> TRUE, at |-> TRUE, key |-> key,
     colon |-> FALSE, value |-> <<>>]
\* "<lead> @<key>: <value>"
KeyValue(lead, key, value) ==
    [form |-> "comment", lead |-> lead, gap |-> TRUE, at |-> TRUE, key |-> key,
     colon |-> TRUE, value |-> value]

\* directive_pattern.match(line): ^(?:#|//|;)\s+@(.*)
directive_pattern(line) ==
    /\ line.form = "comment"
    /\ line.lead \in {"#", "//", ";"}
    /\ line.gap
    /\ line.at

\* The fields of Directives
BoolKeys == {"solution", "masterOnly", "workUnit", "check", "test"}
StrKeys == {"title", "match", "normalize"}
DirectiveKeys == BoolKeys \cup StrKeys \cup {"grade"}

\* str(True), what a str field makes of the value of a bare key
TrueStr == <<"T", "r", "u", "e">>

\* The strings a bool field accepts
BoolTrueStrs ==
    {<<"1">>, <<"o", "n">>, <<"t">>, <<"t", "r", "u", "e">>, <<"y">>,
     <<"y", "e", "s">>}
BoolFalseStrs ==
    {<<"0">>, <<"o", "f", "f">>, <<"f">>, <<"f", "a", "l", "s", "e">>, <<"n">>,
     <<"n", "o">>}

RECURSIVE DigitsValue(_)
\* int(s) of a string of digits
DigitsValue(s) ==
    IF s = <<>> THEN 0
    ELSE 10 * DigitsValue(SubSeq(s, 1, Len(s) - 1)) + (Ord(s[Len(s)]) - 48)

RECURSIVE Pow10(_)
Pow10(n) == IF n = 0 THEN 1 ELSE 10 * Pow10(n - 1)

\* s is a decimal numeral: digits, or digits "." digits (the numerals of the
\* model; every other value of the model is no number to float())
IsNumeral(s) ==
    LET a == RunLen(s, 1, Digit)
        b == RunLen(s, a + 2, Digit)
    IN /\ s \in Seq(Alphabet)
       /\ a > 0
       /\ \/ a = Len(s)
          \/ a < Len(s) /\ s[a + 1] = "." /\ b > 0 /\ a + 1 + b = Len(s)

\* float(s) of a numeral
NumeralValue(s) ==
    LET a == RunLen(s, 1, Digit)
    IN IF a = Len(s) THEN Rat(DigitsValue(s), 1)
       ELSE LET f == SubSeq(s, a + 2, Len(s))
            IN Rat(DigitsValue(SubSeq(s, 1, a)) * Pow10(Len(f)) + DigitsValue(f),
                   Pow10(Len(f)))

\* entry(line), lines 89-100, of the lines that match: (key, value), the value
\* True for a bare key
EntryIsTrue(line) == ~line.colon

\* The lines of the source that get_directives reads: line 103 drops the
\* blank lines and line 104 the lines that entry() maps to None.
DirectiveLines(source) == SelectSeq(source, directive_pattern)

\* dict(...): the last entry of a key wins
HasKey(es, key) == \E i \in 1..Len(es) : es[i].key = key
LastOf(es, key) ==
    es[CHOOSE i \in 1..Len(es) :
           /\ es[i].key = key
           /\ \A j \in (i + 1)..Len(es) : es[j].key # key]

\* Directives(**dict) raises a ValidationError: a key that is no field
\* (extra = 'forbid'), or a value its field cannot take
Invalid(es) ==
    \/ \E i \in 1..Len(es) : es[i].key \notin DirectiveKeys
    \/ \E key \in BoolKeys :
          /\ HasKey(es, key)
          /\ LastOf(es, key).colon
          /\ LastOf(es, key).value \notin BoolTrueStrs \cup BoolFalseStrs
    \/ /\ HasKey(es, "grade")
       /\ LastOf(es, "grade").colon
       /\ ~IsNumeral(LastOf(es, "grade").value)

BoolField(es, key) ==
    /\ HasKey(es, key)
    /\ \/ EntryIsTrue(LastOf(es, key))
       \/ LastOf(es, key).value \in BoolTrueStrs

StrField(es, key) ==
    IF ~HasKey(es, key) THEN <<>>
    ELSE IF EntryIsTrue(LastOf(es, key)) THEN TrueStr
    ELSE LastOf(es, key).value

\* The Directives built from the entries es.  An Optional[bool] field is
\* its truth value and an Optional[str] field is "" when it is None: the
\* code reads the former only as conditions and the latter only through
\* `or` and `if`, and get_tokens treats a match of None as one of "".
DirectivesOf(es) ==
    IF Invalid(es)
    THEN [error |-> TRUE, keys |-> {}, solution |-> FALSE, masterOnly |-> FALSE,
          workUnit |-> FALSE, check |-> FALSE, test |-> FALSE, title |-> <<>>,
          grade |-> One, match |-> <<>>, normalize |-> <<>>]
    ELSE [error |-> FALSE,
          keys |-> {es[i].key : i \in 1..Len(es)},
          solution |-> BoolField(es, "solution"),
          masterOnly |-> BoolField(es, "masterOnly"),
          workUnit |-> BoolField(es, "workUnit"),
          check |-> BoolField(es, "check"),
          test |-> BoolField(es, "test"),
          title |-> StrField(es, "title"),
          grade |-> IF ~HasKey(es, "grade") \/ EntryIsTrue(LastOf(es, "grade"))
                    THEN One
                    ELSE NumeralValue(LastOf(es, "grade").value),
          match |-> StrField(es, "match"),
          normalize |-> StrField(es, "normalize")]

get_directives(c) == DirectivesOf(DirectiveLines(c.source))

-----------------------------------------------------------------------------
(* Outputs and cell results.  An output is [output_type, name, text,       *)
(* ename, evalue, has_plain, plain, str]: name and text of a stream,       *)
(* ename and evalue of an error, and of an execute_result whether its data *)
(* has 'text/plain', that entry, and str(data).                            *)

Stream(name, text) ==
    [output_type |-> "stream", name |-> name, text |-> text, ename |-> <<>>,
     evalue |-> <<>>, has_plain |-> FALSE, plain |-> <<>>, str |-> <<>>]
Error(ename, evalue) ==
    [output_type |-> "error", name |-> "", text |-> <<>>, ename |-> ename,
     evalue |-> evalue, has_plain |-> FALSE, plain |-> <<>>, str |-> <<>>]
ExecuteResult(has_plain, plain, str) ==
    [output_type |-> "execute_result", name |-> "", text |-> <<>>,
     ename |-> <<>>, evalue |-> <<>>, has_plain |-> has_plain, plain |-> plain,
     str |-> str]
DisplayData ==
    [output_type |-> "display_data", name |-> "", text |-> <<>>, ename |-> <<>>,
     evalue |-> <<>>, has_plain |-> FALSE, plain |-> <<>>, str |-> <<>>]

\* The first output of the given type, 0 when there is none: the loops of
\* lines 185, 199 and 215, which break at the first one
FirstOutput(c, type) ==
    IF \E i \in 1..Len(c.outputs) : c.outputs[i].output_type = type
    THEN CHOOSE i \in 1..Len(c.outputs) :
             /\ c.outputs[i].output_type = type
             /\ \A j \in 1..(i - 1) : c.outputs[j].output_type # type
    ELSE 0

CellResult(id, ds, type, text) ==
    [id |-> id, directives |-> ds, type |-> type, text |-> text]

\* Each of the three returns the result and whether it is one (not None).
get_cell_stream_result(ds, c) ==
    LET i == IF c.has_outputs THEN FirstOutput(c, "stream") ELSE 0
    IN IF i = 0 THEN [found |-> FALSE, result |-> CellResult(c.id, ds, "empty", <<>>)]
       ELSE [found |-> TRUE,
             result |-> CellResult(c.id, ds, c.outputs[i].name,
                                   RStrip(c.outputs[i].text))]

get_cell_execute_result(ds, c) ==
    LET i == IF c.has_outputs THEN FirstOutput(c, "execute_result") ELSE 0
    IN IF i = 0 THEN [found |-> FALSE, result |-> CellResult(c.id, ds, "empty", <<>>)]
       ELSE [found |-> TRUE,
             result |-> CellResult(c.id, ds, "execute_result",
                                   RStrip(IF c.outputs[i].has_plain
                                          THEN c.outputs[i].plain
                                          ELSE c.outputs[i].str))]

EnameLit == <<"E", "N", "A", "M", "E", ":", " ">>
EvalueLit == <<"E", "V", "A", "L", "U", "E", ":", " ">>

get_cell_error_result(ds, c) ==
    LET i == IF c.has_outputs THEN FirstOutput(c, "error") ELSE 0
    IN IF i = 0 THEN [found |-> FALSE, result |-> CellResult(c.id, ds, "empty", <<>>)]
       ELSE [found |-> TRUE,
             result |-> CellResult(c.id, ds, "error",
                                   EnameLit \o c.outputs[i].ename \o <<"\n">>
                                       \o EvalueLit \o c.outputs[i].evalue)]

\* A mutant of get_cell_result: the stream is tried before the error.
get_cell_result_stream_first(ds, c) ==
    IF c.has_outputs /\ get_cell_stream_result(ds, c).found
    THEN get_cell_stream_result(ds, c).result
    ELSE IF c.has_outputs /\ get_cell_error_result(ds, c).found
    THEN get_cell_error_result(ds, c).result
    ELSE IF c.has_outputs /\ get_cell_execute_result(ds, c).found
    THEN get_cell_execute_result(ds, c).result
    ELSE CellResult(c.id, ds, "empty", <<>>)

get_cell_result(ds, c) ==
    IF c.has_outputs /\ get_cell_error_result(ds, c).found
    THEN get_cell_error_result(ds, c).result
    ELSE IF c.has_outputs /\ get_cell_stream_result(ds, c).found
    THEN get_cell_stream_result(ds, c).result
    ELSE IF c.has_outputs /\ get_cell_execute_result(ds, c).found
    THEN get_cell_execute_result(ds, c).result
    ELSE CellResult(c.id, ds, "empty", <<>>)

-----------------------------------------------------------------------------
(* The normaliser on its own: normalize_string applied once, then again to *)
(* its own result, as make_expected_list and get_test_result do to the     *)
(* expected text.                                                          *)

Pieces ==
    {<<" ">>, <<"\n">>, <<ESC>>, <<"[", "m">>, <<"A">>, <<"a">>, AtLit,
     InputLit, <<">">>, <<"1">>, <<".">>, <<"2", "5">>}

RECURSIVE Concat(_)
Concat(ps) == IF ps = <<>> THEN <<>> ELSE Head(ps) \o Concat(Tail(ps))

Strings ==
    {Concat(ps) : ps \in UNION {[1..n -> Pieces] : n \in 0..MaxPieces}}

\* The defaults, the defaults with one option changed, all on and all off.
OptionValues ==
    {DefaultOptions,
     [DefaultOptions EXCEPT !.lower = TRUE],
     [DefaultOptions EXCEPT !.whitespace = TRUE],
     [DefaultOptions EXCEPT !.strip = TRUE],
     [DefaultOptions EXCEPT !.maskAddresses = FALSE],
     [DefaultOptions EXCEPT !.maskAnsi = FALSE],
     [DefaultOptions EXCEPT !.ignoreblanks = FALSE],
     [DefaultOptions EXCEPT !.round = 1],
     [DefaultOptions EXCEPT !.round = 2],
     [lower |-> TRUE, whitespace |-> TRUE, strip |-> TRUE, maskAddresses |-> TRUE,
      maskAnsi |-> TRUE, ignoreblanks |-> TRUE, round |-> 1],
     [lower |-> FALSE, whitespace |-> FALSE, strip |-> FALSE,
      maskAddresses |-> FALSE, maskAnsi |-> FALSE, ignoreblanks |-> FALSE,
      round |-> 0]}

NoCell ==
    [id |-> <<>>, cell_type |-> "none", source |-> <<>>, has_outputs |-> FALSE,
     outputs |-> <<>>, editable |-> TRUE]
NoDirectives == DirectivesOf(<<>>)
NoResult == CellResult(<<>>, NoDirectives, "none", <<>>)
NoReport == [status |-> "none", results |-> <<>>, grade |-> Zero, total |-> Zero]
NoPrefix == [none |-> TRUE, s |-> <<>>]

NormIdle == data = <<>> /\ options = DefaultOptions /\ once = <<>> /\ twice = <<>>
CellIdle == cell = NoCell /\ cell_result = NoResult /\ directives = NoDirectives
SheetIdle == kernel = <<>> /\ worksheet = <<>>
GradeIdle ==
    /\ test = FALSE /\ expected_list = <<>> /\ nb = <<>> /\ title_prefix = NoPrefix
    /\ cells = <<>> /\ results = <<>> /\ grade = Zero /\ total = Zero
    /\ report = NoReport

InitNorm ==
    /\ pc = "normalize"
    /\ data \in Strings
    /\ options \in OptionValues
    /\ once = <<>>
    /\ twice = <<>>
    /\ k = 0 /\ master = <<>>
    /\ CellIdle /\ SheetIdle /\ GradeIdle

\* make_expected_list line 357: the text is normalised when it is generated
NormalizeOnce ==
    /\ pc = "normalize"
    /\ once' = normalize(data, options)
    /\ pc' = "renormalize"
    /\ UNCHANGED <<data, options, twice, k, master, cellVars, sheetVars, gradeVars>>

\* get_test_result line 444: the expected text is normalised again
NormalizeAgain ==
    /\ pc = "renormalize"
    /\ twice' = normalize(once, options)
    /\ pc' = "normalized"
    /\ UNCHANGED <<data, options, once, k, master, cellVars, sheetVars, gradeVars>>

NextNorm == NormalizeOnce \/ NormalizeAgain

SpecNorm == InitNorm /\ [][NextNorm]_vars

\* C7: normalising a normalised string changes nothing, whatever the options
C7_Idempotent == pc = "normalized" => twice = once

\* The ends of the run of digits that holds the digit at position i of s
C11_RunStart(s, i) ==
    CHOOSE p \in 1..i :
        /\ \A j \in p..i : s[j] \in Digit
        /\ (p = 1 \/ s[p - 1] \notin Digit)
C11_RunEnd(s, i) == i + RunLen(s, i, Digit) - 1

RECURSIVE C11_IsFraction(_, _)
\* The digit at position i of s is in the fractional part of a decimal token:
\* its run of digits ends at a word boundary and follows a "." that follows a
\* run of digits, the integer part, which starts at a word boundary and is
\* not itself the fractional part of the token before
C11_IsFraction(s, i) ==
    /\ s[i] \in Digit
    /\ LET p == C11_RunStart(s, i)
           e == C11_RunEnd(s, i)
       IN /\ p >= 3
          /\ s[p - 1] = "."
          /\ s[p - 2] \in Digit
          /\ e = Len(s) \/ s[e + 1] \notin WordCh
          /\ C11_RunStart(s, p - 2) = 1
                 \/ s[C11_RunStart(s, p - 2) - 1] \notin WordCh
          /\ ~C11_IsFraction(s, p - 2)

\* s with every fractional digit after the first n of its token made a space
C11_Truncated(s, n) ==
    [i \in 1..Len(s) |->
        IF C11_IsFraction(s, i) /\ i - C11_RunStart(s, i) + 1 > n
        THEN " " ELSE s[i]]

\* C11: with round set to N, normalize_string returns what it returns without
\* round but for the fractional digits after the first N of every decimal
\* token, each of which is a space: the integer parts, the tokens of at most N
\* fractional digits, every other character and the length are the same.
C11_RoundTruncates ==
    (pc \in {"renormalize", "normalized"} /\ options.round > 0)
        => once = C11_Truncated(normalize_string(data, [options EXCEPT !.round = 0]),
                                options.round)

-----------------------------------------------------------------------------
(* The cell result extractor on its own.                                   *)

\* The most outputs of a cell
MaxOutputs == 3

OutputValues ==
    {Error(<<"A">>, <<"a">>), Error(<<"b">>, <<"c">>),
     Stream("stdout", <<"5", "\n">>), Stream("stderr", <<"a", " ">>),
     ExecuteResult(TRUE, <<"1", "\n">>, <<"x">>),
     ExecuteResult(FALSE, <<>>, <<"{", "}">>), DisplayData}

Cell(id, cell_type, source, has_outputs, outputs) ==
    [id |-> id, cell_type |-> cell_type, source |-> source,
     has_outputs |-> has_outputs, outputs |-> outputs, editable |-> TRUE]

InitCell ==
    /\ pc = "extract"
    /\ \/ \E n \in 0..MaxOutputs : \E os \in [1..n -> OutputValues] :
              cell = Cell(<<"a">>, "code", <<CodeLine>>, TRUE, os)
       \/ cell = Cell(<<"a">>, "markdown", <<CodeLine>>, FALSE, <<>>)
    /\ cell_result = NoResult
    /\ directives = NoDirectives
    /\ k = 0 /\ master = <<>>
    /\ NormIdle /\ SheetIdle /\ GradeIdle

GetCellResult ==
    /\ pc = "extract"
    /\ cell_result' = get_cell_result(directives, cell)
    /\ pc' = "extracted"
    /\ UNCHANGED <<cell, directives, k, master, normVars, sheetVars, gradeVars>>

NextCell == GetCellResult

SpecCell == InitCell /\ [][NextCell]_vars

OutputTypes == {cell.outputs[i].output_type : i \in 1..Len(cell.outputs)}

\* i is the first output of the cell of the given type
IsFirst(i, type) ==
    /\ i \in 1..Len(cell.outputs)
    /\ cell.outputs[i].output_type = type
    /\ \A j \in 1..(i - 1) : cell.outputs[j].output_type # type

\* C5: get_cell_result returns one Cell Result, of the first error output if
\* the cell has one, else of the first stream output (of its name's type), else
\* of the first execute_result, whatever the order of the outputs; it is empty
\* with empty text only when the cell has no outputs attribute or no output of
\* one of these three types.
C5_Precedence ==
    pc = "extracted" =>
        /\ cell_result.id = cell.id
        /\ ("error" \in OutputTypes) =>
               /\ cell_result.type = "error"
               /\ \E i \in 1..Len(cell.outputs) :
                      /\ IsFirst(i, "error")
                      /\ cell_result.text =
                             EnameLit \o cell.outputs[i].ename \o <<"\n">>
                                 \o EvalueLit \o cell.outputs[i].evalue
        /\ ("error" \notin OutputTypes /\ "stream" \in OutputTypes) =>
               \E i \in 1..Len(cell.outputs) :
                   /\ IsFirst(i, "stream")
                   /\ cell_result.type = cell.outputs[i].name
                   /\ cell_result.type \in {"stdout", "stderr"}
                   /\ cell_result.text = RStrip(cell.outputs[i].text)
        /\ (/\ "error" \notin OutputTypes /\ "stream" \notin OutputTypes
            /\ "execute_result" \in OutputTypes) =>
               \E i \in 1..Len(cell.outputs) :
                   /\ IsFirst(i, "execute_result")
                   /\ cell_result.type = "execute_result"
                   /\ cell_result.text =
                          RStrip(IF cell.outputs[i].has_plain
                                 THEN cell.outputs[i].plain
                                 ELSE cell.outputs[i].str)
        /\ (cell_result.type = "empty") <=>
               (~cell.has_outputs
                \/ OutputTypes \cap {"error", "stream", "execute_result"} = {})
        /\ (cell_result.type = "empty") => cell_result.text = <<>>

\* C5's case: a stream and an execute_result come before the error that wins
C5_Witness ==
    /\ pc = "extracted"
    /\ Len(cell.outputs) = 3
    /\ cell.outputs[1].output_type = "stream"
    /\ cell.outputs[2].output_type = "execute_result"
    /\ cell.outputs[3].output_type = "error"
    /\ cell_result.type = "error"

-----------------------------------------------------------------------------
(* The directive parser on its own.                                        *)

\* The most lines of a cell's source
MaxLines == 3

NameA == <<"a">>
NameAB == <<"a", "b">>
NameB == <<"b">>

\* "#@test" (no whitespace after the lead), "-- @test" (another lead) and
\* "# note" (no "@") do not match the pattern.
LineValues ==
    {BlankLine, CodeLine, Flag("#", "solution"), Flag("//", "check"),
     KeyValue("#", "title", NameA), KeyValue(";", "grade", <<"2">>),
     KeyValue("#", "grade", <<"x">>), Flag("#", "todo"),
     [Flag("#", "test") EXCEPT !.gap = FALSE], Flag("--", "test"),
     [Flag("#", "note") EXCEPT !.at = FALSE]}

InitDirectives ==
    /\ pc = "parse"
    /\ \E n \in 0..MaxLines : \E src \in [1..n -> LineValues] :
           cell = Cell(<<"a">>, "code", src, TRUE, <<>>)
    /\ cell_result = NoResult
    /\ directives = NoDirectives
    /\ k = 0 /\ master = <<>>
    /\ NormIdle /\ SheetIdle /\ GradeIdle

GetDirectives ==
    /\ pc = "parse"
    /\ directives' = get_directives(cell)
    /\ pc' = "parsed"
    /\ UNCHANGED <<cell, cell_result, k, master, normVars, sheetVars, gradeVars>>

NextDirectives == GetDirectives

SpecDirectives == InitDirectives /\ [][NextDirectives]_vars

NonBlank(line) == line.form # "blank"

RECURSIVE LeadingBlock(_)
\* The lines of a sequence of lines up to the first that does not match
LeadingBlock(lines) ==
    IF lines = <<>> \/ ~directive_pattern(Head(lines)) THEN <<>>
    ELSE <<Head(lines)>> \o LeadingBlock(Tail(lines))

\* C9: get_directives takes the directives of the leading comment block only:
\* of the non-blank lines, those before the first that does not match the
\* pattern; a matching line after it contributes no key.
C9_LeadingBlockOnly ==
    pc = "parsed" =>
        directives = DirectivesOf(LeadingBlock(SelectSeq(cell.source, NonBlank)))

-----------------------------------------------------------------------------
(* The worksheet builder.                                                  *)

\* get_comment_lead_chars; a document without a kernelspec name (the
\* KeyError of line 284) has the kernel "" here
get_comment_lead_chars(kernel_name) ==
    LET kn == Lower(kernel_name)
    IN IF \/ Contains(kn, <<"j", "a", "v", "a">>)
          \/ Contains(kn, <<"k", "o", "t", "l", "i", "n">>)
          \/ Contains(kn, <<"s", "c", "a", "l", "a">>)
       THEN "//"
       ELSE IF Contains(kn, <<"c", "l", "o", "j", "u", "r", "e">>) THEN ";"
       ELSE "#"

\* cell.source.strip() == ''
SourceIsEmpty(c) == \A i \in 1..Len(c.source) : c.source[i].form = "blank"

\* A mutant of SkipCell: masterOnly cells are not skipped.
SkipCellKeepMasterOnly(ds, c) == ds.solution \/ SourceIsEmpty(c)

\* The three `continue`s of make_worksheet, lines 298-308
SkipCell(ds, c) == ds.solution \/ ds.masterOnly \/ SourceIsEmpty(c)

\* The line '{} {}\n'.format(lead, emoji) that apply_directives prepends
MarkerLine(lead, marker) ==
    [form |-> "comment", lead |-> lead, gap |-> TRUE, at |-> FALSE, key |-> marker,
     colon |-> FALSE, value |-> <<>>]

\* convert_work_unit_to_code: a new code cell, with an id of its own, the
\* source and the metadata of the cell
convert_work_unit_to_code(c, new_id) ==
    [id |-> new_id, cell_type |-> "code", source |-> c.source, has_outputs |-> TRUE,
     outputs |-> <<>>, editable |-> c.editable]

clean_outputs(c) == IF c.has_outputs THEN [c EXCEPT !.outputs = <<>>] ELSE c

apply_directives(ds, lead, c) ==
    IF ds.workUnit
    THEN [c EXCEPT !.source = <<MarkerLine(lead, ":writing_hand:")>> \o @]
    ELSE [c EXCEPT !.editable = FALSE,
                   !.source = <<MarkerLine(lead, ":locked:")>> \o @]

\* new_cell of one pass of the loop of make_worksheet, for a cell it keeps
new_cell(c, lead, new_id) ==
    IF c.cell_type \in {"code", "raw"}
    THEN LET ds == get_directives(c)
             copied == IF ds.workUnit THEN convert_work_unit_to_code(c, new_id) ELSE c
         IN apply_directives(ds, lead, clean_outputs(copied))
    ELSE IF c.cell_type = "markdown" THEN [c EXCEPT !.editable = FALSE]
    ELSE c

\* The most cells of a master document
MaxCells == 3

\* The id of the i-th cell of a document whose ids are its positions
IdAt(i) == [j \in 1..i |-> "c"]

\* The ids nbformat draws for new cells
NewIds == {<<"n", "1">>, <<"n", "2">>}

KernelValues ==
    {<<>>, <<"p", "y", "t", "h", "o", "n", "3">>, <<"J", "a", "v", "a">>,
     <<"c", "l", "o", "j", "u", "r", "e">>}

\* Cells without their ids: [cell_type, source, has_outputs, outputs]
Shape(cell_type, source, has_outputs, outputs) ==
    [cell_type |-> cell_type, source |-> source, has_outputs |-> has_outputs,
     outputs |-> outputs]

SheetShapes ==
    {Shape("code", <<CodeLine>>, TRUE, <<Stream("stdout", <<"5", "\n">>)>>),
     Shape("code", <<Flag("#", "solution"), CodeLine>>, TRUE, <<>>),
     Shape("code", <<Flag("#", "masterOnly"), CodeLine>>, TRUE, <<>>),
     Shape("raw", <<Flag("#", "workUnit"), CodeLine>>, FALSE, <<>>),
     Shape("code", <<BlankLine>>, TRUE, <<>>),
     Shape("raw", <<>>, FALSE, <<>>),
     Shape("markdown", <<Flag("#", "solution")>>, FALSE, <<>>),
     Shape("heading", <<BlankLine>>, FALSE, <<>>),
     Shape("code", <<CodeLine, Flag("#", "solution")>>, TRUE, <<>>),
     Shape("code", <<Flag("#", "todo"), CodeLine>>, TRUE, <<>>)}

WithIds(shapes) ==
    [i \in 1..Len(shapes) |->
        Cell(IdAt(i), shapes[i].cell_type, shapes[i].source, shapes[i].has_outputs,
             shapes[i].outputs)]

InitSheet ==
    /\ pc = "make_worksheet"
    /\ \E n \in 0..MaxCells : \E shapes \in [1..n -> SheetShapes] :
           master = WithIds(shapes)
    /\ kernel \in KernelValues
    /\ worksheet = <<>>
    /\ k = 1
    /\ NormIdle /\ CellIdle /\ GradeIdle

\* One pass of the loop of make_worksheet over a cell whose directives are
\* read and do not validate: the ValidationError leaves make_worksheet
WorksheetRaise ==
    /\ pc = "make_worksheet"
    /\ k <= Len(master)
    /\ master[k].cell_type \in {"code", "raw"}
    /\ get_directives(master[k]).error
    /\ pc' = "raised"
    /\ UNCHANGED <<k, master, normVars, cellVars, sheetVars, gradeVars>>

\* One pass of the loop over a cell that is skipped
WorksheetSkip ==
    /\ pc = "make_worksheet"
    /\ k <= Len(master)
    /\ master[k].cell_type \in {"code", "raw"}
    /\ ~get_directives(master[k]).error
    /\ SkipCell(get_directives(master[k]), master[k])
    /\ k' = k + 1
    /\ UNCHANGED <<pc, master, normVars, cellVars, sheetVars, gradeVars>>

\* One pass of the loop over a cell that is kept
WorksheetAppend ==
    /\ pc = "make_worksheet"
    /\ k <= Len(master)
    /\ master[k].cell_type \in {"code", "raw"} =>
           /\ ~get_directives(master[k]).error
           /\ ~SkipCell(get_directives(master[k]), master[k])
    /\ \E new_id \in NewIds :
           worksheet' =
               Append(worksheet,
                      new_cell(master[k], get_comment_lead_chars(kernel), new_id))
    /\ k' = k + 1
    /\ UNCHANGED <<pc, master, kernel, normVars, cellVars, gradeVars>>

\* return worksheet
WorksheetReturn ==
    /\ pc = "make_worksheet"
    /\ k > Len(master)
    /\ pc' = "worksheet_made"
    /\ UNCHANGED <<k, master, normVars, cellVars, sheetVars, gradeVars>>

NextSheet == WorksheetRaise \/ WorksheetSkip \/ WorksheetAppend \/ WorksheetReturn

SpecSheet == InitSheet /\ [][NextSheet]_vars

\* What C8 says is omitted: a code or raw cell whose directives set solution
\* or masterOnly, or whose source is empty once trimmed
C8_Omitted(c) ==
    /\ c.cell_type \in {"code", "raw"}
    /\ \/ get_directives(c).solution
       \/ get_directives(c).masterOnly
       \/ \A i \in 1..Len(c.source) : c.source[i].form = "blank"

C8_Kept(c) == ~C8_Omitted(c)

\* w is the worksheet's cell for the master cell m: m's source (under the
\* marker line, for a code or raw cell) and m's id (a work unit gets a new one)
C8_CellOf(w, m) ==
    IF m.cell_type \in {"code", "raw"}
    THEN /\ Tail(w.source) = m.source
         /\ w.id = m.id \/ (get_directives(m).workUnit /\ w.id \in NewIds)
    ELSE /\ w.source = m.source
         /\ w.id = m.id
         /\ w.cell_type = m.cell_type

\* C8: the worksheet made of a master holds, in the master's order, one cell
\* for each master cell that is not a code or raw cell with solution or
\* masterOnly set or with an empty trimmed source, and no other cell.
C8_WorksheetCells ==
    pc = "worksheet_made" =>
        LET kept == SelectSeq(master, C8_Kept)
        IN /\ Len(worksheet) = Len(kept)
           /\ \A i \in 1..Len(kept) : C8_CellOf(worksheet[i], kept[i])

\* C8's case: a master of a masterOnly cell, a kept cell and a solution cell
C8_Witness ==
    /\ pc = "worksheet_made"
    /\ Len(master) = 3
    /\ get_directives(master[1]).masterOnly
    /\ master[2].cell_type = "markdown"
    /\ get_directives(master[3]).solution /\ master[3].cell_type = "code"
    /\ Len(worksheet) = 1
    /\ worksheet[1].id = master[2].id

-----------------------------------------------------------------------------
(* The expected-set builder and the matcher/grader.                        *)

RECURSIVE SplitAt(_, _)
\* text.split("\n"), for C = {"\n"}: the pieces between the separators
SplitAt(text, C) ==
    LET n == RunLenNot(text, 1, C)
    IN IF n = Len(text) THEN <<text>>
       ELSE <<SubSeq(text, 1, n)>> \o SplitAt(SubSeq(text, n + 2, Len(text)), C)

RECURSIVE SplitWords(_)
\* text.split(): the maximal runs of characters that are not whitespace
SplitWords(text) ==
    LET w == RunLen(text, 1, Space)
        n == RunLenNot(text, w + 1, Space)
    IN IF n = 0 THEN <<>>
       ELSE <<SubSeq(text, w + 1, w + n)>>
                \o SplitWords(SubSeq(text, w + n + 1, Len(text)))

LineLit == <<"l", "i", "n", "e">>
WordLit == <<"w", "o", "r", "d">>

get_tokens(ds, text) ==
    IF Contains(ds.match, LineLit) THEN SplitAt(text, {"\n"})
    ELSE IF Contains(ds.match, WordLit) THEN SplitWords(text)
    ELSE <<text>>

RECURSIVE CommonRun(_, _, _, _, _, _)
\* The length of the longest common run of a[i..ahi] and b[j..bhi] from i and j
CommonRun(a, b, i, j, ahi, bhi) ==
    IF i <= ahi /\ j <= bhi /\ a[i] = b[j]
    THEN 1 + CommonRun(a, b, i + 1, j + 1, ahi, bhi)
    ELSE 0

\* p is, among the pairs of starts, the best start of a matching block: of
\* the longest block, of those the earliest in a, of those the earliest in b
BestStart(a, b, p, starts, ahi, bhi) ==
    \A q \in starts :
        \/ CommonRun(a, b, q[1], q[2], ahi, bhi) < CommonRun(a, b, p[1], p[2], ahi, bhi)
        \/ /\ CommonRun(a, b, q[1], q[2], ahi, bhi) = CommonRun(a, b, p[1], p[2], ahi, bhi)
           /\ \/ p[1] < q[1]
              \/ p[1] = q[1] /\ p[2] <= q[2]

MatchAt(a, b, p, ahi, bhi) ==
    [i |-> p[1], j |-> p[2], size |-> CommonRun(a, b, p[1], p[2], ahi, bhi)]

\* SequenceMatcher.find_longest_match(alo, ahi, blo, bhi) without junk: the
\* longest matching block, of those the one that starts earliest in a, and of
\* those the one that starts earliest in b
find_longest_match(a, b, alo, ahi, blo, bhi) ==
    MatchAt(a, b,
            CHOOSE p \in (alo..ahi) \X (blo..bhi) :
                BestStart(a, b, p, (alo..ahi) \X (blo..bhi), ahi, bhi),
            ahi, bhi)

RECURSIVE matching_blocks(_, _, _, _, _, _)
RECURSIVE blocks_around(_, _, _, _, _, _, _)
\* The sum of the sizes of SequenceMatcher.get_matching_blocks(): the longest
\* match, then the same to its left and to its right
matching_blocks(a, b, alo, ahi, blo, bhi) ==
    IF alo > ahi \/ blo > bhi THEN 0
    ELSE blocks_around(a, b, alo, ahi, blo, bhi,
                       find_longest_match(a, b, alo, ahi, blo, bhi))

blocks_around(a, b, alo, ahi, blo, bhi, m) ==
    IF m.size = 0 THEN 0
    ELSE m.size
         + matching_blocks(a, b, alo, m.i - 1, blo, m.j - 1)
         + matching_blocks(a, b, m.i + m.size, ahi, m.j + m.size, bhi)

\* SequenceMatcher(None, a, b).ratio(): 2.0 * matches / (len(a) + len(b)),
\* and 1.0 of two empty sequences
ratio(a, b) ==
    IF Len(a) + Len(b) = 0 THEN One
    ELSE Rat(2 * matching_blocks(a, b, 1, Len(a), 1, Len(b)), Len(a) + Len(b))

\* 0.99, the threshold of line 446
Threshold == Rat(99, 100)

\* The message of line 425
NotSubmitted(title) == <<"[\"">> \o title \o <<"\"] is not submitted.">>

TestResult(id, has_submitted, submitted, expected, status, message, r, g, t) ==
    [id |-> id, has_submitted |-> has_submitted, submitted |-> submitted,
     expected |-> expected, status |-> status, message |-> message, ratio |-> r,
     grade |-> g, total |-> t]

\* The tokens of a text of the comparison, lines 442-444
Tokens(ds, text) == get_tokens(ds, normalize(text, get_normalize_options(ds)))

\* The TestResult of lines 445-459, r being the ratio
Compared(submitted, expected, r) ==
    TestResult(expected.id, TRUE, submitted, expected,
               IF RatLess(Threshold, r) THEN "success" ELSE "failure",
               <<>>, r, RatMul(expected.directives.grade, r),
               expected.directives.grade)

\* A mutant of get_test_result: the types are not compared.
get_test_result_any_type(has_submitted, submitted, expected) ==
    IF ~has_submitted
    THEN TestResult(expected.id, FALSE, NoResult, expected, "error",
                    NotSubmitted(expected.directives.title), Zero, Zero,
                    expected.directives.grade)
    ELSE Compared(submitted, expected,
                  ratio(Tokens(expected.directives, submitted.text),
                        Tokens(expected.directives, expected.text)))

\* A mutant of get_test_result: a missing submission is a failure of total 0.
get_test_result_missing_failure(has_submitted, submitted, expected) ==
    IF ~has_submitted
    THEN TestResult(expected.id, FALSE, NoResult, expected, "failure",
                    NotSubmitted(expected.directives.title), Zero, Zero, Zero)
    ELSE IF submitted.type # expected.type
    THEN TestResult(expected.id, TRUE, submitted, expected, "failure", <<>>,
                    Zero, Zero, expected.directives.grade)
    ELSE Compared(submitted, expected,
                  ratio(Tokens(expected.directives, submitted.text),
                        Tokens(expected.directives, expected.text)))

\* get_test_result(submitted, expected); submitted is None when ~has_submitted
get_test_result(has_submitted, submitted, expected) ==
    IF ~has_submitted
    THEN TestResult(expected.id, FALSE, NoResult, expected, "error",
                    NotSubmitted(expected.directives.title), Zero, Zero,
                    expected.directives.grade)
    ELSE IF submitted.type # expected.type
    THEN TestResult(expected.id, TRUE, submitted, expected, "failure", <<>>,
                    Zero, Zero, expected.directives.grade)
    ELSE Compared(submitted, expected,
                  ratio(Tokens(expected.directives, submitted.text),
                        Tokens(expected.directives, expected.text)))

\* The cells whose directives make_expected_list reads do not all validate
ExpectedRaises(cs) == \E i \in 1..Len(cs) : get_directives(cs[i]).error

\* The condition of line 355
Selected(ds, t) == ds.check \/ (t /\ ds.test)

\* The result of lines 356-357
Normalized(ds, result) ==
    [result EXCEPT !.text = normalize(@, get_normalize_options(ds))]

ExpectedOf(ds, c) == Normalized(ds, get_cell_result(ds, c))

RECURSIVE make_expected_list(_, _)
\* make_expected_list(master, test), of the cells cs of a master whose
\* directives validate
make_expected_list(cs, t) ==
    IF cs = <<>> THEN <<>>
    ELSE (IF Selected(get_directives(Head(cs)), t)
          THEN <<ExpectedOf(get_directives(Head(cs)), Head(cs))>>
          ELSE <<>>)
         \o make_expected_list(Tail(cs), t)

\* The last cell of cs that has the key as its id, 0 when none has
LastWithId(cs, key) ==
    IF \E i \in 1..Len(cs) : cs[i].id = key
    THEN CHOOSE i \in 1..Len(cs) :
             cs[i].id = key /\ \A j \in (i + 1)..Len(cs) : cs[j].id # key
    ELSE 0

\* The last cell of cs whose directives have the key as their title
LastWithTitle(cs, key) ==
    IF key # <<>> /\ \E i \in 1..Len(cs) : get_directives(cs[i]).title = key
    THEN CHOOSE i \in 1..Len(cs) :
             /\ get_directives(cs[i]).title = key
             /\ \A j \in (i + 1)..Len(cs) : get_directives(cs[j]).title # key
    ELSE 0

\* A mutant of IndexCells: a title does not replace an id of the lookup.
IndexCellsIdsFirst(cs) ==
    LET keys == {cs[i].id : i \in 1..Len(cs)}
                    \cup ({get_directives(cs[i]).title : i \in 1..Len(cs)} \ {<<>>})
    IN [key \in keys |->
           IF LastWithId(cs, key) # 0 THEN cs[LastWithId(cs, key)]
           ELSE cs[LastWithTitle(cs, key)]]

\* The lookup `cells` of make_report, lines 466-475: every cell under its id,
\* then every cell with a title under its title, a later entry of a key
\* replacing an earlier one
IndexCells(cs) ==
    LET keys == {cs[i].id : i \in 1..Len(cs)}
                    \cup ({get_directives(cs[i]).title : i \in 1..Len(cs)} \ {<<>>})
    IN [key \in keys |->
           IF LastWithTitle(cs, key) # 0 THEN cs[LastWithTitle(cs, key)]
           ELSE cs[LastWithId(cs, key)]]

\* title = directives.title or cell_id, line 480
EffectiveTitle(expected) ==
    IF expected.directives.title # <<>> THEN expected.directives.title
    ELSE expected.id

\* A mutant of Filtered: the prefix must be the whole title.
FilteredUnlessEqual(prefix, expected) ==
    ~prefix.none /\ EffectiveTitle(expected) # prefix.s

\* The `continue` of lines 482-483
Filtered(prefix, expected) ==
    ~prefix.none /\ ~StartsWith(EffectiveTitle(expected), prefix.s)

\* submitted_cell of lines 485-491; None when ~found
Resolve(lookup, expected) ==
    IF expected.id \in DOMAIN lookup
    THEN [found |-> TRUE, cell |-> lookup[expected.id]]
    ELSE IF EffectiveTitle(expected) \in DOMAIN lookup
    THEN [found |-> TRUE, cell |-> lookup[EffectiveTitle(expected)]]
    ELSE [found |-> FALSE, cell |-> NoCell]

\* submitted_result of line 493
SubmittedResult(sub, expected) ==
    IF sub.found THEN get_cell_result(expected.directives, sub.cell) ELSE NoResult

\* result of lines 493-495, sub being the submitted cell
ResultOf(sub, expected) ==
    get_test_result(sub.found, SubmittedResult(sub, expected), expected)

ItemResult(lookup, expected) == ResultOf(Resolve(lookup, expected), expected)

\* The most cells of a master document that is graded against
MaxGraded == 2
\* The most cells of a submitted document
MaxSubmitted == 2

\* The id of the i-th cell of a graded master
MasterIdAt(i) ==
    IF i = 1 THEN NameA ELSE IF i = 2 THEN NameAB ELSE IF i = 3 THEN NameB
    ELSE IdAt(i)

TextAB == <<"a", "\n", "b", "\n">>
TextAC == <<"a", "\n", "c", "\n">>
TextAnsi == <<"a", "\n", ESC, "[", "m">>
TextWords == <<"a", " ", "b">>

MasterShapes ==
    {Shape("code", <<Flag("#", "check"), CodeLine>>, TRUE,
           <<Stream("stdout", TextAB)>>),
     Shape("code", <<Flag("#", "check"), KeyValue("#", "title", NameB),
                     KeyValue("#", "grade", <<"2">>),
                     KeyValue("#", "match", LineLit), CodeLine>>, TRUE,
           <<Stream("stdout", TextAB)>>),
     Shape("code", <<Flag("#", "test"), KeyValue("#", "title", NameAB),
                     KeyValue("#", "match", WordLit), CodeLine>>, TRUE,
           <<ExecuteResult(TRUE, TextWords, <<"{", "}">>)>>),
     Shape("code", <<Flag("#", "check"), CodeLine>>, TRUE,
           <<Stream("stdout", TextAnsi)>>)}

\* A master cell whose directives do not validate
UnknownKeyShape ==
    Shape("code", <<Flag("#", "check"), Flag("#", "todo")>>, TRUE, <<>>)

GradedMaster(shapes) ==
    [i \in 1..Len(shapes) |->
        Cell(MasterIdAt(i), shapes[i].cell_type, shapes[i].source,
             shapes[i].has_outputs, shapes[i].outputs)]

SubmittedIds == {NameA, NameAB, NameB}

\* What a submitted cell without directives may output
ContentOutputs ==
    {Stream("stdout", TextAB), Stream("stdout", TextAC), Stream("stderr", TextAB),
     Stream("stdout", TextAnsi), ExecuteResult(TRUE, TextWords, <<"{", "}">>)}

\* The submitted documents whose cells keep the master's ids and have no
\* directives, of every output
ContentDocuments(n) ==
    {[i \in 1..Len(outs) |-> Cell(MasterIdAt(i), "code", <<CodeLine>>, TRUE,
                                  <<outs[i]>>)] :
        outs \in UNION {[1..m -> ContentOutputs] : m \in 0..n}}

\* Submitted cells of one output, of every id and title, and with a line
\* the student wrote that reads as a directive
TitledCells ==
    {Cell(id, "code", src, TRUE, <<Stream("stdout", TextAB)>>) :
        id \in SubmittedIds,
        src \in {<<CodeLine>>, <<KeyValue("#", "title", NameA), CodeLine>>,
                 <<KeyValue("#", "title", NameB), CodeLine>>,
                 <<CodeLine, Flag("#", "todo")>>}}

\* The documents of at most n cells of cs whose ids differ
Documents(cs, n) ==
    {d \in UNION {[1..m -> cs] : m \in 0..n} :
        \A i, j \in 1..Len(d) : i # j => d[i].id # d[j].id}

PrefixValues == {NoPrefix, [none |-> FALSE, s |-> NameA]}

Init ==
    /\ pc = "generate"
    /\ \/ \E n \in 0..MaxGraded : \E shapes \in [1..n -> MasterShapes] :
              master = GradedMaster(shapes)
       \/ master = GradedMaster(<<UnknownKeyShape>>)
    /\ test \in BOOLEAN
    /\ nb \in ContentDocuments(MaxSubmitted) \cup Documents(TitledCells, MaxSubmitted)
    /\ title_prefix \in PrefixValues
    /\ expected_list = <<>>
    /\ cells = <<>>
    /\ results = <<>>
    /\ grade = Zero
    /\ total = Zero
    /\ report = NoReport
    /\ k = 0
    /\ NormIdle /\ CellIdle /\ SheetIdle

\* Generate (cli.py): make_expected_list(master, test) returns the list
Generate ==
    /\ pc = "generate"
    /\ ~ExpectedRaises(master)
    /\ expected_list' = make_expected_list(master, test)
    /\ pc' = "make_report"
    /\ UNCHANGED <<k, master, normVars, cellVars, sheetVars, test, nb, title_prefix,
                   cells, results, grade, total, report>>

\* Generate (cli.py): the ValidationError of a master cell's directives
\* leaves make_expected_list, and no list is written
GenerateRaise ==
    /\ pc = "generate"
    /\ ExpectedRaises(master)
    /\ pc' = "generate_raised"
    /\ UNCHANGED <<k, master, normVars, cellVars, sheetVars, gradeVars>>

\* make_report, lines 462-475: the lookup of the submitted cells
ReportIndex ==
    /\ pc = "make_report"
    /\ \A i \in 1..Len(nb) : ~get_directives(nb[i]).error
    /\ cells' = IndexCells(nb)
    /\ k' = 1
    /\ pc' = "grading"
    /\ UNCHANGED <<master, normVars, cellVars, sheetVars, test, expected_list, nb,
                   title_prefix, results, grade, total, report>>

\* make_report, line 473: get_directives raises on a submitted cell whose
\* directives do not validate, and the exception leaves make_report
ReportRaise ==
    /\ pc = "make_report"
    /\ \E i \in 1..Len(nb) : get_directives(nb[i]).error
    /\ report' = [NoReport EXCEPT !.status = "raised"]
    /\ pc' = "report_raised"
    /\ UNCHANGED <<k, master, normVars, cellVars, sheetVars, test, expected_list, nb,
                   title_prefix, cells, results, grade, total>>

\* make_report, lines 477-483: an expected item the prefix filters out
ReportFilter ==
    /\ pc = "grading"
    /\ k <= Len(expected_list)
    /\ Filtered(title_prefix, expected_list[k])
    /\ k' = k + 1
    /\ UNCHANGED <<pc, master, normVars, cellVars, sheetVars, gradeVars>>

\* Lines 497-499
Accumulate(result) ==
    /\ results' = Append(results, result)
    /\ grade' = RatAdd(grade, result.grade)
    /\ total' = RatAdd(total, result.total)

\* make_report, lines 477-499: an expected item that is graded
ReportGrade ==
    /\ pc = "grading"
    /\ k <= Len(expected_list)
    /\ ~Filtered(title_prefix, expected_list[k])
    /\ Accumulate(ItemResult(cells, expected_list[k]))
    /\ k' = k + 1
    /\ UNCHANGED <<pc, master, normVars, cellVars, sheetVars, test, expected_list,
                   nb, title_prefix, cells, report>>

\* make_report, lines 501-506
ReportReturn ==
    /\ pc = "grading"
    /\ k > Len(expected_list)
    /\ report' = [status |-> "returned", results |-> results, grade |-> grade,
                  total |-> total]
    /\ pc' = "reported"
    /\ UNCHANGED <<k, master, normVars, cellVars, sheetVars, test, expected_list, nb,
                   title_prefix, cells, results, grade, total>>

Next ==
    \/ Generate
    \/ GenerateRaise
    \/ ReportIndex
    \/ ReportRaise
    \/ ReportFilter
    \/ ReportGrade
    \/ ReportReturn

Spec == Init /\ [][Next]_vars

-----------------------------------------------------------------------------
(* The claims about the grader.                                            *)

\* The results of the report so far, and the items they are of
ResultIndices == 1..Len(results)

\* The submitted cell with the id, which a document has at most one of
SubmittedWithId(id) == CHOOSE i \in 1..Len(nb) : nb[i].id = id
HasSubmittedId(id) == \E i \in 1..Len(nb) : nb[i].id = id
HasSubmittedTitle(title) ==
    \E i \in 1..Len(nb) : get_directives(nb[i]).title = title

\* The master cell an expected item was generated from
MasterCellOf(expected) == master[CHOOSE i \in 1..Len(master) : master[i].id = expected.id]

\* C1: a graded item whose submitted cell, found under the item's id or
\* title, has the outputs of the master cell the item was generated from is a
\* success of ratio 1.0 and of grade the item's weight, in every match mode.
C1_RoundTrip ==
    \A i \in ResultIndices :
        (/\ Resolve(cells, results[i].expected).found
         /\ Resolve(cells, results[i].expected).cell.outputs
                = MasterCellOf(results[i].expected).outputs)
            => /\ results[i].status = "success"
               /\ results[i].ratio = One
               /\ results[i].grade = results[i].expected.directives.grade

\* The item's title for make_report: its directive title, or its id
C_Title(expected) ==
    IF expected.directives.title = <<>> THEN expected.id
    ELSE expected.directives.title

\* s begins with the prefix p
C_IsPrefix(p, s) == Len(p) <= Len(s) /\ \A i \in 1..Len(p) : s[i] = p[i]

C_Passes(expected) ==
    title_prefix.none \/ C_IsPrefix(title_prefix.s, C_Title(expected))

\* The expected items that pass the prefix filter, in the list's order
C_Graded == SelectSeq(expected_list, C_Passes)

C_IsMissing(r, expected) ==
    /\ r.status = "error"
    /\ r.ratio = Zero
    /\ r.grade = Zero
    /\ r.total = expected.directives.grade
    /\ r.message = NotSubmitted(expected.directives.title)
    /\ ~r.has_submitted

\* C2 as stated: a graded item whose id no submitted cell has and whose title
\* no submitted cell carries gets an error result of ratio 0, grade 0 and
\* total its weight, whose message names the title; and every item after it is
\* graded.
C2_MissingIsError ==
    pc = "reported" =>
        /\ Len(report.results) = Len(C_Graded)
        /\ \A i \in 1..Len(C_Graded) :
               (/\ ~HasSubmittedId(C_Graded[i].id)
                /\ ~HasSubmittedTitle(C_Title(C_Graded[i])))
                   => C_IsMissing(report.results[i], C_Graded[i])

\* No submitted cell has the key as its id or as its title
C_NoKey(key) == ~HasSubmittedId(key) /\ ~HasSubmittedTitle(key)

\* C2 amended: a graded item gets that error result when no submitted cell
\* has the item's id or the item's title as its id or as its title; and every
\* item after it is graded.
C2_MissingIsErrorAmended ==
    pc = "reported" =>
        /\ Len(report.results) = Len(C_Graded)
        /\ \A i \in 1..Len(C_Graded) :
               (C_NoKey(C_Graded[i].id) /\ C_NoKey(C_Title(C_Graded[i])))
                   => C_IsMissing(report.results[i], C_Graded[i])

\* C2's case: the first of two graded items has no submitted cell and the
\* second is graded all the same
C2_Witness ==
    /\ pc = "reported"
    /\ Len(report.results) = 2
    /\ C_NoKey(C_Graded[1].id) /\ C_NoKey(C_Title(C_Graded[1]))
    /\ report.results[1].status = "error"
    /\ report.results[2].status = "success"

\* C3: every Test Result has a ratio in [0, 1] and the item's weight as its
\* total; when the types are equal its grade is total * ratio and it is a
\* success exactly when ratio > 0.99, a failure otherwise; when the submission
\* is missing or of another type its ratio and grade are 0 whatever the texts,
\* and a type mismatch is a failure.
C3_ResultInvariant ==
    \A i \in ResultIndices :
        LET r == results[i]
            compared == r.has_submitted /\ r.submitted.type = r.expected.type
        IN /\ ~RatLess(r.ratio, Zero) /\ ~RatLess(One, r.ratio)
           /\ r.total = r.expected.directives.grade
           /\ compared =>
                  /\ r.grade = RatMul(r.total, r.ratio)
                  /\ r.status = IF r.ratio.n * 100 > 99 * r.ratio.d
                                THEN "success" ELSE "failure"
           /\ ~compared => r.ratio = Zero /\ r.grade = Zero
           /\ (r.has_submitted /\ ~compared) => r.status = "failure"
           /\ (r.status = "success") => compared

\* C3's case: a submission of another type with the expected text
C3_Witness ==
    \E i \in ResultIndices :
        /\ results[i].has_submitted
        /\ results[i].submitted.type # results[i].expected.type
        /\ results[i].submitted.text = results[i].expected.text
        /\ results[i].submitted.text # <<>>
        /\ results[i].status = "failure"
        /\ results[i].ratio = Zero

RECURSIVE C_Sum(_, _)
\* The sum of a field of the results rs
C_Sum(rs, field) ==
    IF rs = <<>> THEN Zero ELSE RatAdd(C_Sum(Tail(rs), field), Head(rs)[field])

\* C4: the report holds one Test Result for each expected item whose title
\* (or id, without one) starts with the prefix, in the list's order, and none
\* for another; its grade and its total are the sums of theirs.
C4_ReportItems ==
    pc = "reported" =>
        /\ Len(report.results) = Len(C_Graded)
        /\ \A i \in 1..Len(C_Graded) :
               /\ report.results[i].expected = C_Graded[i]
               /\ report.results[i].id = C_Graded[i].id
        /\ report.grade = C_Sum(report.results, "grade")
        /\ report.total = C_Sum(report.results, "total")

\* C4's case: of two expected items the prefix filters the first out
C4_Witness ==
    /\ pc = "reported"
    /\ Len(expected_list) = 2
    /\ ~C_Passes(expected_list[1])
    /\ C_Passes(expected_list[2])
    /\ Len(report.results) = 1
    /\ report.grade # Zero

\* C6: make_report returns a report for every submitted document, whatever
\* its cells; it never raises.
C6_NeverRaises == pc # "report_raised"

\* The last submitted cell whose title is the key, 0 without one
C_LastTitled(key) ==
    IF HasSubmittedTitle(key) /\ key # <<>>
    THEN CHOOSE i \in 1..Len(nb) :
             /\ get_directives(nb[i]).title = key
             /\ \A j \in (i + 1)..Len(nb) : get_directives(nb[j]).title # key
    ELSE 0

\* The result r grades the submitted cell nb[i], or none when i = 0
C_Grades(r, i) ==
    IF i = 0 THEN ~r.has_submitted
    ELSE r.has_submitted /\ r.submitted.id = nb[i].id

\* C10 as stated: the graded cell is the submitted cell with the item's id;
\* without one, the last submitted cell whose title is the item's title;
\* without one, none.
C10_IdThenTitle ==
    pc = "reported" =>
        \A i \in 1..Len(C_Graded) :
            C_Grades(report.results[i],
                     IF HasSubmittedId(C_Graded[i].id)
                     THEN SubmittedWithId(C_Graded[i].id)
                     ELSE C_LastTitled(C_Title(C_Graded[i])))

\* The submitted cell the lookup holds under the key: the last cell whose
\* title is the key, else the cell whose id is the key, else none (0)
C_Under(key) ==
    IF C_LastTitled(key) # 0 THEN C_LastTitled(key)
    ELSE IF HasSubmittedId(key) THEN SubmittedWithId(key)
    ELSE 0

\* C10 amended: the graded cell is the one the lookup holds under the item's
\* id, which is the last submitted cell whose title equals that id and only
\* without one the cell with that id; when it holds none, the one it holds
\* under the item's title, which is the last submitted cell with that title
\* and without one the cell whose id equals the title; otherwise none.
C10_IdThenTitleAmended ==
    pc = "reported" =>
        \A i \in 1..Len(C_Graded) :
            C_Grades(report.results[i],
                     IF C_Under(C_Graded[i].id) # 0 THEN C_Under(C_Graded[i].id)
                     ELSE C_Under(C_Title(C_Graded[i])))

\* C10's case: a submitted cell has the item's id and a later one has that id
\* as its title; the later one is graded
C10_Witness ==
    /\ pc = "reported"
    /\ Len(report.results) >= 1
    /\ HasSubmittedId(C_Graded[1].id)
    /\ C_LastTitled(C_Graded[1].id) # 0
    /\ report.results[1].has_submitted
    /\ report.results[1].submitted.id # C_Graded[1].id
====
